---- MODULE Spec2Model ----
(***************************************************************************)
(* Forgejo backend of mise: the Forge Client (src/src/forgejo.rs) and the  *)
(* version/asset resolver and install pipeline (src/src/backend/forgejo.rs)*)
(*                                                                         *)
(* Conventions.  A Rust String is a sequence of one-character strings, so  *)
(* "" is << >>.  Option<T> is a sequence of length at most one: None is    *)
(* << >> and Some(x) is <<x>>.  Result<T> is a record [ok, val, err].      *)
(* A URL is the sequence of its path segments, each a String.              *)
(***************************************************************************)
EXTENDS Integers, Sequences, FiniteSets, TLC

\* ------------------------------------------------------------------------
\* Option / Result / String helpers
\* ------------------------------------------------------------------------
None == << >>

Some(x) == <<x>>

is_some(o) == o # << >>

unwrap_or_default(o) == IF o = << >> THEN << >> ELSE o[1]

or_else(o, alt) == IF o # << >> THEN o ELSE alt

NoAsset == [name |-> << >>, url |-> << >>, url_api |-> << >>]

NoErr == [kind |-> "none", at |-> << >>, names |-> << >>, osarch |-> << >>]

NoTv == [lock_platforms |-> << >>]

Ok(v) == [ok |-> TRUE, val |-> v, err |-> NoErr]

Err(e) == [ok |-> FALSE, val |-> << >>, err |-> e]

starts_with(s, p) == Len(p) <= Len(s) /\ SubSeq(s, 1, Len(p)) = p

to_lowercase_char(c) ==
    CASE c = "L" -> "l"
      [] c = "W" -> "w"
      [] c = "X" -> "x"
      [] c = "V" -> "v"
      [] OTHER -> c

to_lowercase(s) == [i \in 1..Len(s) |-> to_lowercase_char(s[i])]

contains_char(s, c) == \E i \in 1..Len(s) : s[i] = c

\* ------------------------------------------------------------------------
\* Helpers of crate::backend::static_helpers used by the backend
\* ------------------------------------------------------------------------
\* get_filename_from_url: the last path segment of the URL ("" for "").
get_filename_from_url(url) == IF url = << >> THEN << >> ELSE url[Len(url)]

\* lookup_platform_key(opts, key): the value of the option under the
\* current platform's section only; callers that want the global option
\* too chain .or_else(|| opts.get(key)) themselves.
lookup_platform_key(o, key) ==
    CASE key = "url" -> o.platform_url
      [] key = "asset_pattern" -> o.platform_asset_pattern
      [] OTHER -> None

\* template_string(template, tv): "{v}" stands for the version placeholder.
RECURSIVE template_string(_, _)
template_string(t, ver) ==
    IF t = << >> THEN << >>
    ELSE (IF Head(t) = "{v}" THEN ver ELSE <<Head(t)>>) \o template_string(Tail(t), ver)

\* The version candidates of try_with_v_prefix: the literal version, then
\* the version with the prefix ("v" unless version_prefix is set) toggled.
toggle_prefix(ver, p) ==
    IF starts_with(ver, p) THEN SubSeq(ver, Len(p) + 1, Len(ver)) ELSE p \o ver

version_candidates(ver, version_prefix) ==
    <<ver, toggle_prefix(ver, IF version_prefix = None THEN <<"v">> ELSE version_prefix[1])>>

\* ------------------------------------------------------------------------
\* Platform asset picker (crate::backend::asset_detector)
\* ------------------------------------------------------------------------
settings_os == "l"

settings_arch == "x"

picker_eligible(name) ==
    /\ contains_char(to_lowercase(name), settings_os)
    /\ contains_char(to_lowercase(name), settings_arch)

picker_score(name) == IF contains_char(name, ".") THEN 2 ELSE 1

pick_best_asset(names) ==
    LET el == {i \in 1..Len(names) : picker_eligible(names[i])}
        best == {i \in el : \A j \in el :
                    \/ picker_score(names[j]) < picker_score(names[i])
                    \/ (picker_score(names[j]) = picker_score(names[i]) /\ i <= j)}
    IN IF el = {} THEN None ELSE Some(names[CHOOSE i \in best : TRUE])

\* ------------------------------------------------------------------------
\* ForgejoBackend pure helpers (src/src/backend/forgejo.rs)
\* ------------------------------------------------------------------------
\* str::replace of one character by a string
RECURSIVE replace(_, _, _)
replace(s, c, by) ==
    IF s = << >> THEN << >>
    ELSE (IF Head(s) = c THEN by ELSE <<Head(s)>>) \o replace(Tail(s), c, by)

\* Regex::new("^re$") fails on a "[" that no "]" closes; the patterns of
\* the model have no "]".
regex_new_ok(re) == ~contains_char(re, "[")

\* Regex::new("^re$").is_match(s) for the regex syntax the translation can
\* produce: "\c" a literal c, "." any character, any other character
\* itself, and after such an atom "*" for any run of it and "+" for a run of
\* at least one.
RECURSIVE regex_is_match(_, _, _, _)
regex_is_match(re, i, s, j) ==
    IF i > Len(re) THEN j > Len(s)
    ELSE LET esc == re[i] = "\\" /\ i < Len(re)
             alen == IF esc THEN 2 ELSE 1
             atom(c) == IF esc THEN c = re[i + 1]
                        ELSE IF re[i] = "." THEN TRUE ELSE c = re[i]
             star == i + alen <= Len(re) /\ re[i + alen] = "*"
             plus == i + alen <= Len(re) /\ re[i + alen] = "+"
         IN IF star
            THEN \/ regex_is_match(re, i + alen + 1, s, j)
                 \/ (j <= Len(s) /\ atom(s[j]) /\ regex_is_match(re, i, s, j + 1))
            ELSE IF plus
            THEN /\ j <= Len(s) /\ atom(s[j])
                 /\ \/ regex_is_match(re, i + alen + 1, s, j + 1)
                    \/ regex_is_match(re, i, s, j + 1)
            ELSE j <= Len(s) /\ atom(s[j]) /\ regex_is_match(re, i + alen, s, j + 1)

\* str::contains
contains(s, sub) ==
    \E k \in 0..(Len(s) - Len(sub)) : SubSeq(s, k + 1, k + Len(sub)) = sub

matches_pattern(asset_name, pattern) ==
    LET regex_pattern ==
            replace(replace(replace(pattern, ".", <<"\\", ".">>), "*", <<".", "*">>), "?", <<".">>)
    IN IF regex_new_ok(regex_pattern)
       THEN regex_is_match(regex_pattern, 1, asset_name, 1)
       ELSE contains(asset_name, pattern)

\* Mutant: one pass that takes the first case-insensitive match.
find_asset_first_lowercase(assets, target_name) ==
    LET lower == {i \in 1..Len(assets) :
                     to_lowercase(assets[i].name) = to_lowercase(target_name)}
    IN IF lower # {} THEN Some(assets[CHOOSE i \in lower : \A j \in lower : i <= j])
       ELSE None

find_asset_case_insensitive(assets, target_name) ==
    LET exact == {i \in 1..Len(assets) : assets[i].name = target_name}
        lower == {i \in 1..Len(assets) :
                     to_lowercase(assets[i].name) = to_lowercase(target_name)}
        first(S) == CHOOSE i \in S : \A j \in S : i <= j
    IN IF exact # {} THEN Some(assets[first(exact)])
       ELSE IF lower # {} THEN Some(assets[first(lower)])
       ELSE None

RECURSIVE trim_start_matches(_, _)
trim_start_matches(s, c) ==
    IF s # << >> /\ Head(s) = c THEN trim_start_matches(Tail(s), c) ELSE s

\* Mutant: after the configured prefix, a leading "v" is trimmed as well.
strip_version_prefix_then_v(version_prefix, tag_name) ==
    IF version_prefix # None /\ starts_with(tag_name, version_prefix[1])
    THEN trim_start_matches(SubSeq(tag_name, Len(version_prefix[1]) + 1, Len(tag_name)), "v")
    ELSE IF starts_with(tag_name, <<"v">>) THEN trim_start_matches(tag_name, "v")
    ELSE tag_name

strip_version_prefix(version_prefix, tag_name) ==
    IF version_prefix # None /\ starts_with(tag_name, version_prefix[1])
    THEN SubSeq(tag_name, Len(version_prefix[1]) + 1, Len(tag_name))
    ELSE IF starts_with(tag_name, <<"v">>) THEN trim_start_matches(tag_name, "v")
    ELSE tag_name

auto_detect_asset(available_assets) ==
    LET picked == pick_best_asset(available_assets)
    IN IF picked = None
       THEN Err([kind |-> "no_suitable_asset", at |-> << >>,
                 names |-> available_assets, osarch |-> <<settings_os, settings_arch>>])
       ELSE Ok(picked[1])

release_asset(a) ==
    [name |-> a.name, url |-> a.browser_download_url, url_api |-> unwrap_or_default(a.url)]

\* Mutant: a pattern that matches nothing falls through to auto-detection.
select_asset_fallthrough(ver, o, release) ==
    LET available_assets == [i \in 1..Len(release.assets) |-> release.assets[i].name]
        pattern == or_else(lookup_platform_key(o, "asset_pattern"), o.asset_pattern)
        hits == IF is_some(pattern)
                THEN {i \in 1..Len(release.assets) :
                         matches_pattern(release.assets[i].name,
                                         template_string(pattern[1], ver))}
                ELSE {}
        asset_name == auto_detect_asset(available_assets)
    IN IF hits # {}
       THEN Ok(release_asset(release.assets[CHOOSE i \in hits : \A j \in hits : i <= j]))
       ELSE IF ~asset_name.ok THEN asset_name
       ELSE Ok(release_asset(find_asset_case_insensitive(release.assets, asset_name.val)[1]))

\* Lines 249-290 of resolve_forge_asset_url: the choice of an asset of a
\* fetched release.
select_asset(ver, o, release) ==
    LET available_assets == [i \in 1..Len(release.assets) |-> release.assets[i].name]
        pattern == or_else(lookup_platform_key(o, "asset_pattern"), o.asset_pattern)
    IN IF is_some(pattern)
       THEN LET templated_pattern == template_string(pattern[1], ver)
                hits == {i \in 1..Len(release.assets) :
                            matches_pattern(release.assets[i].name, templated_pattern)}
            IN IF hits = {}
               THEN Err([kind |-> "no_pattern_match", at |-> templated_pattern,
                         names |-> available_assets, osarch |-> << >>])
               ELSE Ok(release_asset(release.assets[CHOOSE i \in hits : \A j \in hits : i <= j]))
       ELSE LET asset_name == auto_detect_asset(available_assets)
            IN IF ~asset_name.ok THEN asset_name
               ELSE LET a == find_asset_case_insensitive(release.assets, asset_name.val)
                    IN IF a = None
                       THEN Err([kind |-> "asset_not_found", at |-> asset_name.val,
                                 names |-> available_assets, osarch |-> << >>])
                       ELSE Ok(release_asset(a[1]))

\* Mutant: a failed release fetch is defaulted instead of propagated by `?`.
resolve_forge_asset_url_defaulted(ver, o, fetched) ==
    IF ~fetched.ok THEN Ok(NoAsset) ELSE select_asset(ver, o, fetched.val)

\* resolve_forge_asset_url, given the outcome of the awaited
\* forge::get_release_for_url(api_url, repo, version).
resolve_forge_asset_url(ver, o, fetched) ==
    IF ~fetched.ok THEN fetched ELSE select_asset(ver, o, fetched.val)

\* ------------------------------------------------------------------------
\* Cache keys (src/src/forgejo.rs): format!(..).to_kebab_case()
\* ------------------------------------------------------------------------
is_alphanumeric(c) == c \notin {"-", "/", ".", ":", "_", " "}

\* heck's to_kebab_case: the words of s (maximal alphanumeric runs), lower
\* cased and joined by "-".
RECURSIVE kebab_from(_, _, _)
kebab_from(s, out, gap) ==
    IF s = << >> THEN out
    ELSE IF ~is_alphanumeric(Head(s)) THEN kebab_from(Tail(s), out, TRUE)
    ELSE kebab_from(Tail(s),
                    out \o (IF gap /\ out # << >> THEN <<"-">> ELSE << >>)
                        \o <<to_lowercase_char(Head(s))>>,
                    FALSE)

to_kebab_case(s) == kebab_from(s, << >>, FALSE)

release_key(api_url, repo, tag) == to_kebab_case(api_url \o <<"-">> \o repo \o <<"-">> \o tag)

\* ------------------------------------------------------------------------
\* The world of the install model
\* ------------------------------------------------------------------------
MaxAttempts == 2

PlatformKeys == {"linux-x64", "macos-arm64", "windows-x64"}

get_platform_key == "linux-x64"

ToolName == <<"h", "/", "o", "/", "r">>

\* ForgejoBackend::repo: the tool name without its first "/"-separated part
RECURSIVE skip_first_part(_)
skip_first_part(s) ==
    IF s = << >> THEN << >>
    ELSE IF Head(s) = "/" THEN Tail(s) ELSE skip_first_part(Tail(s))

repo == skip_first_part(ToolName)

RECURSIVE first_part(_)
first_part(s) ==
    IF s = << >> \/ Head(s) = "/" THEN << >> ELSE <<Head(s)>> \o first_part(Tail(s))

\* ForgejoBackend::get_api_url without the api_url option
get_api_url == <<":", "/", "/">> \o first_part(ToolName) \o <<"/", "a", "p", "i">>

Versions == {<<"2">>, <<"v", "2">>}

Tags == {<<"2">>, <<"v", "2">>, <<"r", "2">>}

AssetLX == [name |-> <<"l", "x">>,
            browser_download_url |-> <<<<"d">>, <<"l", "x">>>>,
            url |-> Some(<<<<"a">>, <<"7">>>>)]

AssetWX == [name |-> <<"w", "x">>,
            browser_download_url |-> <<<<"d">>, <<"w", "x">>>>,
            url |-> None]

\* What upstream publishes under a tag: nothing, a release with an asset for
\* this platform, or a release without one.
UpstreamKinds == {"absent", "good", "other"}

upstream_release(kind, tag) ==
    [tag_name |-> tag, draft |-> FALSE, prerelease |-> (kind = "other"),
     assets |-> IF kind = "good" THEN <<AssetWX, AssetLX>> ELSE <<AssetWX>>]

DirectUrl == <<<<"u">>, <<"f">>>>

GlobalUrl == <<<<"g">>, <<"f">>>>

OptionSets ==
    [version_prefix : {None, Some(<<"r">>)},
     url : {None, Some(GlobalUrl)},
     platform_url : {None, Some(DirectUrl)},
     asset_pattern : {None, Some(<<"l", "*">>)},
     platform_asset_pattern : {None, Some(<<"?", "x">>)}]

OtherEntry == [name |-> Some(<<"m">>), url |-> Some(<<<<"d">>, <<"m">>>>),
               url_api |-> None, checksum |-> Some(<<"c">>)]

\* PlatformInfo::default()
DefaultEntry == [name |-> None, url |-> None, url_api |-> None, checksum |-> None]

\* The lock map's entries of the other platform keys before the install:
\* one platform was installed before, one never.
other_platforms(k) == IF k = "macos-arm64" THEN Some(OtherEntry) ELSE None

LockEntries ==
    {None,
     Some([name |-> None, url |-> Some(<<<<"d">>, <<"k">>>>), url_api |-> None,
           checksum |-> Some(<<"c">>)]),
     Some([name |-> Some(<<"n">>), url |-> Some(<<<<"d">>, <<"k">>>>),
           url_api |-> Some(<<<<"a">>, <<"9">>>>), checksum |-> None])}

\* ------------------------------------------------------------------------
\* State of the install model
\* ------------------------------------------------------------------------
VARIABLES
    opts,           \* tv.request.options()
    version,        \* tv.version
    upstream,       \* what the forge publishes, by tag
    caller_tv,      \* the ToolVersion the caller holds and passes by value
    tv,             \* install_version_'s own `mut tv`
    pc,             \* position of the running install_version_
    asset,          \* the ReleaseAsset of the attempt
    cand,           \* index of the version candidate on trial
    dl_url,         \* `url` of download_and_install, chosen by the probe
    ret,            \* what install_version_ returned last
    release_cache,  \* RELEASE_CACHE values of this process, by key
    net,            \* the external calls of the attempt, in order
    path,           \* how the attempt got its asset: lock, url or forge
    lock_src,       \* the asset whose write produced caller_tv's entry
    attempts

ivars == <<opts, version, upstream, caller_tv, tv, pc, asset, cand, dl_url, ret,
           release_cache, net, path, lock_src, attempts>>

\* ------------------------------------------------------------------------
\* State of the release-listing model (list_releases_from_url, one caller)
\* ------------------------------------------------------------------------
VARIABLES
    lr_kind,        \* the call: list_releases_from_url or list_tags_from_url
    lr_upstream,    \* the releases (tags) the forge publishes, newest first
    lr_per_page,    \* how many of them the forge puts on a page
    lr_all,         \* env::MISE_LIST_ALL_VERSIONS
    lr_pc,          \* position of the running list_releases_from_url
    lr_releases,    \* `releases` of list_releases_
    lr_headers,     \* `headers` of list_releases_: the last response's
    lr_received,    \* the items upstream sent in this call, in order
    lr_requests,    \* the pages requested in this call, in order
    lr_answers,     \* how each of these requests ended: "ok" or "fail"
    lr_cache,       \* the value of the key's CacheManager, if any
    lr_disk,        \* the value in the key's cache file, if written
    lr_ret,         \* what list_releases_from_url returned last
    lr_calls

lvars == <<lr_kind, lr_upstream, lr_per_page, lr_all, lr_pc, lr_releases, lr_headers,
           lr_received, lr_requests, lr_answers, lr_cache, lr_disk, lr_ret, lr_calls>>

\* ------------------------------------------------------------------------
\* State of the Forge Client model (concurrent callers of one process)
\* ------------------------------------------------------------------------
VARIABLES
    c_req,          \* the call each caller makes: group, api_url, repo, tag
    c_key,          \* `key` of each caller's call
    c_pc,           \* the position of each caller in its call
    c_readers,      \* per cache group, the callers holding a read guard
    c_queue,        \* per cache group, the callers queued on its RwLock, in order
    c_waited,       \* the callers that were ever queued on a RwLock
    c_managers,     \* per cache group, the CacheGroup map: key -> manager
    c_disk,         \* the cache files written, by path
    c_result,       \* what each caller's call returned
    c_fetches,      \* the upstream fetches issued, in order
    c_gen           \* how many upstream fetches were answered

cvars == <<c_req, c_key, c_pc, c_readers, c_queue, c_waited, c_managers, c_disk, c_result,
           c_fetches, c_gen>>

\* ------------------------------------------------------------------------
\* State of the backend-helper model: one call of a synchronous helper of
\* ForgejoBackend on given arguments
\* ------------------------------------------------------------------------
VARIABLES
    b_fn,           \* the helper that is called
    b_opts,         \* self.ba.opts() / the opts argument
    b_tag_name,     \* tag_name of strip_version_prefix
    b_releases,     \* what forge::list_releases_from_url returned
    b_assets,       \* release.assets / the assets argument
    b_target_name,  \* target_name of find_asset_case_insensitive
    b_done,         \* whether the helper has returned
    b_stripped,     \* what strip_version_prefix returned
    b_versions,     \* what _list_remote_versions returned
    b_selected,     \* what resolve_forge_asset_url returned
    b_found         \* what find_asset_case_insensitive returned

bvars == <<b_fn, b_opts, b_tag_name, b_releases, b_assets, b_target_name, b_done,
           b_stripped, b_versions, b_selected, b_found>>

vars == <<ivars, lvars, cvars, bvars>>

Groups == {"releases", "tags", "release"}

NoOpts == [version_prefix |-> None, url |-> None, platform_url |-> None,
           asset_pattern |-> None, platform_asset_pattern |-> None]

IdleBackend ==
    /\ b_fn = "none"
    /\ b_opts = NoOpts
    /\ b_tag_name = << >>
    /\ b_releases = << >>
    /\ b_assets = << >>
    /\ b_target_name = << >>
    /\ b_done = FALSE
    /\ b_stripped = << >>
    /\ b_versions = << >>
    /\ b_selected = Err(NoErr)
    /\ b_found = None

IdleClient ==
    /\ c_req = << >>
    /\ c_key = << >>
    /\ c_pc = << >>
    /\ c_readers = [g \in Groups |-> {}]
    /\ c_queue = [g \in Groups |-> << >>]
    /\ c_waited = {}
    /\ c_managers = [g \in Groups |-> << >>]
    /\ c_disk = << >>
    /\ c_result = << >>
    /\ c_fetches = << >>
    /\ c_gen = 0

IdleList ==
    /\ lr_kind = "releases"
    /\ lr_disk = None
    /\ lr_upstream = << >>
    /\ lr_per_page = 1
    /\ lr_all = FALSE
    /\ lr_pc = "idle"
    /\ lr_releases = << >>
    /\ lr_headers = << >>
    /\ lr_received = << >>
    /\ lr_requests = << >>
    /\ lr_answers = << >>
    /\ lr_cache = None
    /\ lr_ret = Err(NoErr)
    /\ lr_calls = 0

IdleInstall ==
    /\ opts = [version_prefix |-> None, url |-> None, platform_url |-> None,
               asset_pattern |-> None, platform_asset_pattern |-> None]
    /\ version = <<"2">>
    /\ upstream = [t \in Tags |-> "absent"]
    /\ caller_tv = [lock_platforms |-> [k \in PlatformKeys |-> None]]
    /\ tv = NoTv
    /\ pc = "idle"
    /\ asset = NoAsset
    /\ cand = 0
    /\ dl_url = << >>
    /\ ret = Err(NoErr)
    /\ release_cache = << >>
    /\ net = << >>
    /\ path = "none"
    /\ lock_src = None
    /\ attempts = 0

event(op, at, res) == [op |-> op, at |-> at, res |-> res]

result_kind(r) == IF r.ok THEN "ok" ELSE r.err.kind

InitInstall ==
    /\ opts \in OptionSets
    /\ version \in Versions
    /\ upstream \in [Tags -> UpstreamKinds]
    /\ \E e \in LockEntries :
          caller_tv = [lock_platforms |->
                          [k \in PlatformKeys |->
                              IF k = get_platform_key THEN e ELSE other_platforms(k)]]
    /\ tv = NoTv
    /\ pc = "idle"
    /\ asset = NoAsset
    /\ cand = 0
    /\ dl_url = << >>
    /\ ret = Err(NoErr)
    /\ release_cache = << >>
    /\ net = << >>
    /\ path = "none"
    /\ lock_src = None
    /\ attempts = 0
    /\ IdleList
    /\ IdleClient
    /\ IdleBackend

\* Mutant: url_api is rebuilt from the entry's url.
asset_from_lock_api_from_url(existing_platform) ==
    [name |-> IF is_some(existing_platform.name) THEN existing_platform.name[1]
              ELSE get_filename_from_url(unwrap_or_default(existing_platform.url)),
     url |-> unwrap_or_default(existing_platform.url),
     url_api |-> unwrap_or_default(existing_platform.url)]

\* Lines 75-81: the ReleaseAsset rebuilt from an existing lock entry.
asset_from_lock(existing_platform) ==
    [name |-> IF is_some(existing_platform.name) THEN existing_platform.name[1]
              ELSE get_filename_from_url(unwrap_or_default(existing_platform.url)),
     url |-> unwrap_or_default(existing_platform.url),
     url_api |-> unwrap_or_default(existing_platform.url_api)]

\* Lines 222-228 of resolve_asset_url: the explicit URL override.
direct_url_of(o) == lookup_platform_key(o, "url")

asset_from_url(direct_url) ==
    [name |-> get_filename_from_url(direct_url), url |-> direct_url, url_api |-> direct_url]

\* Mutant: the chosen asset is recorded under every platform key.
write_lock_all(lock_platforms, platform_key, a) ==
    [k \in DOMAIN lock_platforms |->
        Some([(IF is_some(lock_platforms[k]) THEN lock_platforms[k][1] ELSE DefaultEntry)
                EXCEPT !.name = Some(a.name), !.url = Some(a.url),
                       !.url_api = Some(a.url_api)])]

\* Lines 168-172 of download_and_install: the lock entry of the platform key
\* is created if missing and its name, url and url_api are overwritten.
write_lock(lock_platforms, platform_key, a) ==
    LET platform_info == IF is_some(lock_platforms[platform_key])
                         THEN lock_platforms[platform_key][1] ELSE DefaultEntry
    IN [lock_platforms EXCEPT ![platform_key] =
           Some([platform_info EXCEPT !.name = Some(a.name),
                                      !.url = Some(a.url),
                                      !.url_api = Some(a.url_api)])]

\* Mutant: the API URL is downloaded after a successful probe.
probe_choice_swapped(a, head_ok) == IF head_ok THEN a.url_api ELSE a.url

\* Lines 174-177: the URL the download uses, given the probe's outcome.
probe_choice(a, head_ok) == IF head_ok THEN a.url ELSE a.url_api

\* Mutant: the closure ignores its candidate and asks for tv.version again.
closure_tag_version(ver, candidate) == ver

\* The tag the closure of resolve_asset_url hands to resolve_forge_asset_url.
closure_tag(ver, candidate) == candidate

\* try_with_v_prefix after one candidate's outcome r: the first success is
\* returned; a not-found release moves on to the next candidate; any other
\* error, and the error of the last candidate, is returned.
try_with_v_prefix_next(r, i, n) ==
    IF r.ok THEN "ok"
    ELSE IF r.err.kind = "not_found" /\ i < n THEN "next"
    ELSE "err"

\* forge::get_release_for_url as one sequential caller sees it: the cached
\* value of the key if the process has one, else what the upstream fetch of
\* get_release_ gives (the release, not-found, or a transport failure).
get_release_outcomes(tag) ==
    LET key == release_key(get_api_url, repo, tag)
        kind == IF tag \in DOMAIN upstream THEN upstream[tag] ELSE "absent"
    IN IF key \in DOMAIN release_cache THEN {Ok(release_cache[key])}
       ELSE {IF kind = "absent"
             THEN Err([kind |-> "not_found", at |-> tag, names |-> << >>, osarch |-> << >>])
             ELSE Ok(upstream_release(kind, tag)),
             Err([kind |-> "transport", at |-> tag, names |-> << >>, osarch |-> << >>])}

\* install_version_ returning r: Ok hands the mutated tv back, Err drops it.
Return(r) ==
    /\ ret' = r
    /\ pc' = "idle"
    /\ caller_tv' = IF r.ok THEN r.val ELSE caller_tv
    /\ lock_src' = IF r.ok THEN Some(asset) ELSE lock_src

fail(kind, at) == Err([kind |-> kind, at |-> at, names |-> << >>, osarch |-> << >>])

\* Mutant: the url option is consulted before the lock entry.
first_choice_url_first(existing_platform, o) ==
    IF is_some(direct_url_of(o))
    THEN [path |-> "url", asset |-> asset_from_url(direct_url_of(o)[1])]
    ELSE IF is_some(existing_platform)
    THEN [path |-> "lock", asset |-> asset_from_lock(existing_platform[1])]
    ELSE [path |-> "forge", asset |-> NoAsset]

\* Lines 69-84 and 222-228: what install_version_ settles before the first
\* await: the asset of the lock entry, else the asset of the url option,
\* else nothing yet (the forge is asked).
first_choice(existing_platform, o) ==
    IF is_some(existing_platform)
    THEN [path |-> "lock", asset |-> asset_from_lock(existing_platform[1])]
    ELSE IF is_some(direct_url_of(o))
    THEN [path |-> "url", asset |-> asset_from_url(direct_url_of(o)[1])]
    ELSE [path |-> "forge", asset |-> NoAsset]

\* install_version_ lines 64-84, up to the first await.
install_version_begin ==
    /\ pc = "idle"
    /\ attempts < MaxAttempts
    /\ attempts' = attempts + 1
    /\ tv' = caller_tv
    /\ net' = << >>
    /\ dl_url' = << >>
    /\ LET first == first_choice(caller_tv.lock_platforms[get_platform_key], opts)
       IN /\ asset' = first.asset
          /\ path' = first.path
          /\ pc' = IF first.path = "forge" THEN "try_candidate" ELSE "download_and_install"
          /\ cand' = IF first.path = "forge" THEN 1 ELSE 0
    /\ UNCHANGED <<opts, version, upstream, caller_tv, ret, release_cache, lock_src>>
    /\ UNCHANGED <<lvars, cvars, bvars>>

\* One turn of try_with_v_prefix's loop: resolve_forge_asset_url(candidate).
try_candidate ==
    /\ pc = "try_candidate"
    /\ LET candidates == version_candidates(version, opts.version_prefix)
           tag == closure_tag(version, candidates[cand])
           key == release_key(get_api_url, repo, tag)
       IN \E fetched \in get_release_outcomes(tag) :
            LET r == resolve_forge_asset_url(version, opts, fetched)
                step == try_with_v_prefix_next(r, cand, Len(candidates))
            IN /\ net' = net \o <<event("get_release", tag, result_kind(fetched))>>
               /\ release_cache' = IF fetched.ok THEN (key :> fetched.val) @@ release_cache
                                   ELSE release_cache
               /\ CASE step = "ok" ->
                         /\ asset' = r.val
                         /\ pc' = "download_and_install"
                         /\ UNCHANGED <<cand, ret, caller_tv, lock_src>>
                    [] step = "next" ->
                         /\ cand' = cand + 1
                         /\ UNCHANGED <<asset, pc, ret, caller_tv, lock_src>>
                    [] OTHER ->
                         /\ Return(r)
                         /\ UNCHANGED <<asset, cand>>
    /\ UNCHANGED <<opts, version, upstream, tv, dl_url, path, attempts>>
    /\ UNCHANGED <<lvars, cvars, bvars>>

\* download_and_install lines 142-172: the lock entry is written.
lock_write ==
    /\ pc = "download_and_install"
    /\ tv' = [tv EXCEPT !.lock_platforms = write_lock(tv.lock_platforms, get_platform_key, asset)]
    /\ net' = net \o <<event("lock_write", asset.url, "ok")>>
    /\ pc' = "probe"
    /\ UNCHANGED <<opts, version, upstream, caller_tv, asset, cand, dl_url, ret,
                   release_cache, path, lock_src, attempts>>
    /\ UNCHANGED <<lvars, cvars, bvars>>

\* Lines 174-177: HTTP.head(asset.url)
probe ==
    /\ pc = "probe"
    /\ \E head_ok \in BOOLEAN :
          /\ dl_url' = probe_choice(asset, head_ok)
          /\ net' = net \o <<event("head", asset.url, IF head_ok THEN "ok" ELSE "fail")>>
    /\ pc' = "download"
    /\ UNCHANGED <<opts, version, upstream, caller_tv, tv, asset, cand, ret,
                   release_cache, path, lock_src, attempts>>
    /\ UNCHANGED <<lvars, cvars, bvars>>

\* Mutant: a failed step is logged and the pipeline goes on.
pipeline_step_unchecked(at, op, arg, next) ==
    /\ pc = at
    /\ \E ok \in BOOLEAN :
          /\ net' = net \o <<event(op, arg, IF ok THEN "ok" ELSE "fail")>>
          /\ IF next = "idle"
             THEN Return(IF ok THEN Ok(tv) ELSE fail(op, arg))
             ELSE pc' = next /\ UNCHANGED <<ret, caller_tv, lock_src>>
    /\ UNCHANGED <<opts, version, upstream, tv, asset, cand, dl_url,
                   release_cache, path, attempts>>
    /\ UNCHANGED <<lvars, cvars, bvars>>

\* A fallible step of the pipeline: on success the next position, on
\* failure install_version_ returns the error.
pipeline_step(at, op, arg, next) ==
    /\ pc = at
    /\ \E ok \in BOOLEAN :
          /\ net' = net \o <<event(op, arg, IF ok THEN "ok" ELSE "fail")>>
          /\ IF ok
             THEN IF next = "idle"
                  THEN Return(Ok(tv))
                  ELSE pc' = next /\ UNCHANGED <<ret, caller_tv, lock_src>>
             ELSE Return(fail(op, arg))
    /\ UNCHANGED <<opts, version, upstream, tv, asset, cand, dl_url,
                   release_cache, path, attempts>>
    /\ UNCHANGED <<lvars, cvars, bvars>>

\* Lines 179-183: HTTP.download_file_with_headers(url, ..)
download == pipeline_step("download", "download", dl_url, "verify")

\* Line 185
verify_artifact == pipeline_step("verify", "verify_artifact", asset.name, "install")

\* Line 186
install_artifact == pipeline_step("install", "install_artifact", asset.name, "checksum")

\* Lines 187-189 and install_version_ line 89
verify_checksum == pipeline_step("checksum", "verify_checksum", asset.name, "idle")

NextInstall ==
    \/ install_version_begin
    \/ try_candidate
    \/ lock_write
    \/ probe
    \/ download
    \/ verify_artifact
    \/ install_artifact
    \/ verify_checksum

Spec == InitInstall /\ [][NextInstall]_vars

\* ------------------------------------------------------------------------
\* Properties of the install model
\* ------------------------------------------------------------------------
\* The Forge Client calls of the attempt, in order.
ForgeCalls == SelectSeq(net, LAMBDA e : e.op = "get_release")

NetOps == {net[i].op : i \in 1..Len(net)}

\* The toggled-prefix form of the requested version, from the claim's words.
ToggledVersion ==
    LET p == IF opts.version_prefix = None THEN <<"v">> ELSE opts.version_prefix[1]
    IN IF Len(version) >= Len(p) /\ SubSeq(version, 1, Len(p)) = p
       THEN SubSeq(version, Len(p) + 1, Len(version))
       ELSE p \o version

PublishedAssets(tag) == upstream_release(upstream[tag], tag).assets

ResolutionOver == path = "forge" /\ pc # "try_candidate"

\* C4: the literal version is asked for first and the toggled-prefix form
\* only after the literal form failed; the asset comes from the release of
\* the first candidate that yields one, so asking for "2" when upstream has
\* only "v2" resolves to an asset of "v2" with no version_prefix set.
C4_CandidateOrder ==
    LET calls == ForgeCalls
        n == Len(calls)
    IN /\ n <= 2
       /\ n >= 1 => calls[1].at = version
       /\ n = 2 => calls[2].at = ToggledVersion /\ calls[1].res # "ok"
       /\ (path = "forge" /\ asset # NoAsset) =>
             /\ calls[n].res = "ok"
             /\ \E i \in 1..Len(PublishedAssets(calls[n].at)) :
                   PublishedAssets(calls[n].at)[i].name = asset.name
       /\ ( /\ ResolutionOver
            /\ version = <<"2">> /\ opts.version_prefix = None
            /\ upstream[<<"2">>] = "absent" /\ upstream[<<"v", "2">>] = "good"
            /\ \A i \in 1..n : calls[i].res # "transport" )
          => /\ n = 2 /\ calls[2].at = <<"v", "2">>
             /\ asset.name \in {AssetLX.name, AssetWX.name}

C4_Witness ==
    /\ pc = "probe" /\ path = "forge" /\ attempts = 1
    /\ version = <<"2">> /\ opts.version_prefix = None
    /\ upstream[<<"2">>] = "absent" /\ upstream[<<"v", "2">>] = "good"
    /\ Len(ForgeCalls) = 2
    /\ asset.name = AssetLX.name

\* C5: a not-found release is surfaced by install_version only when every
\* candidate failed, the error is then the last candidate's, and no lock
\* write, probe or download happened and the lock map is as it was.
C5_NotFoundRecovered ==
    LET calls == ForgeCalls
        n == Len(calls)
        allNotFound == n = 2 /\ \A i \in 1..n : calls[i].res = "not_found"
    IN /\ (path = "forge" /\ n = 1 /\ calls[1].res = "not_found") =>
             pc = "try_candidate" /\ cand = 2
       /\ (path = "forge" /\ n = 2 /\ calls[2].res = "not_found") =>
             /\ allNotFound
             /\ pc = "idle" /\ ~ret.ok
             /\ ret.err.kind = "not_found" /\ ret.err.at = ToggledVersion
             /\ NetOps = {"get_release"}
             /\ tv = caller_tv
       /\ (pc = "idle" /\ path = "forge" /\ ~ret.ok /\ ret.err.kind = "not_found") =>
             allNotFound

C5_Witness ==
    /\ pc = "idle" /\ path = "forge" /\ ~ret.ok
    /\ ret.err.kind = "not_found" /\ ret.err.at = ToggledVersion
    /\ Len(ForgeCalls) = 2

\* C6: whenever a candidate yields a release of which neither the
\* asset_pattern nor the picker selects an asset, install_version fails with
\* the no-matching-asset error listing that release's asset names (and the
\* os/arch pair when the picker failed), and no later candidate is tried.
C6_NoAssetSurfaced ==
    LET calls == ForgeCalls
        pattern == IF opts.platform_asset_pattern # None THEN opts.platform_asset_pattern
                   ELSE opts.asset_pattern
        names(tag) == [i \in 1..Len(PublishedAssets(tag)) |-> PublishedAssets(tag)[i].name]
        selects(tag) ==
            IF pattern # None
            THEN \E i \in 1..Len(names(tag)) : matches_pattern(names(tag)[i], pattern[1])
            ELSE pick_best_asset(names(tag)) # None
    IN \A i \in 1..Len(calls) :
          (calls[i].res = "ok" /\ ~selects(calls[i].at)) =>
             /\ i = Len(calls)
             /\ pc = "idle" /\ ~ret.ok
             /\ ret.err.names = names(calls[i].at)
             /\ IF pattern # None
                THEN ret.err.kind = "no_pattern_match" /\ ret.err.at = pattern[1]
                ELSE /\ ret.err.kind = "no_suitable_asset"
                     /\ ret.err.osarch = <<settings_os, settings_arch>>
             /\ NetOps = {"get_release"}

C6_Witness ==
    /\ pc = "idle" /\ path = "forge" /\ ~ret.ok
    /\ ret.err.kind = "no_pattern_match"
    /\ Len(ForgeCalls) = 1
    /\ upstream[ToggledVersion] = "good"

\* C7: with a lock entry for the current platform key at the start of
\* install_version, no Forge Client call is made and the asset is the lock
\* entry's, whatever the url and asset_pattern options say.
C7_LockShortCircuit ==
    LET existing == caller_tv.lock_platforms[get_platform_key]
    IN /\ (pc # "idle" /\ existing # None) =>
             /\ path = "lock"
             /\ ForgeCalls = << >>
             /\ asset.url = unwrap_or_default(existing[1].url)
             /\ asset.url_api = unwrap_or_default(existing[1].url_api)
             /\ asset.name = IF existing[1].name # None THEN existing[1].name[1]
                             ELSE asset.url[Len(asset.url)]
       /\ (attempts > 0 /\ path = "lock") => ForgeCalls = << >>

C7_Witness ==
    /\ pc = "probe" /\ path = "lock" /\ attempts = 1
    /\ opts.platform_url # None /\ opts.url # None
    /\ asset.url # DirectUrl
    /\ caller_tv.lock_platforms[get_platform_key][1].name = None

\* C8: an attempt that finds the lock entry written by an earlier attempt
\* rebuilds exactly the ReleaseAsset that attempt chose, and writing it
\* again leaves the lock entry as it was.
C8_LockRoundTrip ==
    (attempts >= 2 /\ path = "lock" /\ lock_src # None) =>
        /\ asset = lock_src[1]
        /\ pc \notin {"idle", "download_and_install"} =>
              tv.lock_platforms = caller_tv.lock_platforms

C8_Witness ==
    /\ attempts = 2 /\ path = "lock" /\ lock_src # None
    /\ pc = "probe"
    /\ asset.name = AssetLX.name /\ asset.url_api # asset.url

\* C9: the lock entry is written after the asset is chosen and before the
\* probe, and when a later step fails the lock state that results from the
\* attempt still records the chosen asset.
C9_LockSurvivesFailure ==
    (pc = "idle" /\ attempts > 0 /\ ~ret.ok /\ "lock_write" \in NetOps) =>
        LET e == caller_tv.lock_platforms[get_platform_key]
        IN /\ e # None
           /\ e[1].name = Some(asset.name)
           /\ e[1].url = Some(asset.url)
           /\ e[1].url_api = Some(asset.url_api)

\* C10: with no lock entry and a url option, platform-specific or global,
\* the asset's download and API URL are that URL and no Forge Client call
\* is made.
C10_UrlOverride ==
    (attempts > 0 /\ path # "lock" /\ (opts.platform_url # None \/ opts.url # None)) =>
        /\ ForgeCalls = << >>
        /\ asset.url \in {unwrap_or_default(opts.platform_url), unwrap_or_default(opts.url)}
        /\ asset.url # << >>
        /\ asset.url_api = asset.url

\* The steps of download_and_install the attempt has taken, in order.
PipelineEvents == SelectSeq(net, LAMBDA e : e.op # "get_release")

PipelineOrder ==
    <<"lock_write", "head", "download", "verify_artifact", "install_artifact",
      "verify_checksum">>

\* The steps are taken in the pipeline's order, each at most once, and a
\* step in MayFail is the last step of its attempt when it failed: its error
\* is what install_version returned.
PipelineOrdered(MayFail) ==
    LET ev == PipelineEvents
        n == Len(ev)
    IN /\ n <= Len(PipelineOrder)
       /\ \A i \in 1..n : ev[i].op = PipelineOrder[i]
       /\ \A i \in 1..n :
             (ev[i].op \in MayFail /\ ev[i].res # "ok") =>
                 /\ i = n
                 /\ pc = "idle" /\ ~ret.ok /\ ret.err.kind = ev[i].op
       /\ (pc = "idle" /\ attempts > 0 /\ n > 0 /\ ret.ok) =>
             /\ n = Len(PipelineOrder)
             /\ \A i \in 1..n : ev[i].op \in MayFail => ev[i].res = "ok"

\* C16 as stated: lock-write, probe, download, checksum verification,
\* artifact installation, secondary checksum, each step only after the
\* previous one succeeded; a failing step's error is returned by
\* install_version and the step is not retried.
C16_PipelineOrder ==
    PipelineOrdered({"lock_write", "head", "download", "verify_artifact",
                     "install_artifact", "verify_checksum"})

\* C16 amended: the same for every step but the probe, whose failure is not
\* an error of the attempt: the download follows the probe whatever its
\* outcome. The artifact installer is never invoked after a failed download
\* or a failed checksum verification.
C16_PipelineOrderAfterProbe ==
    /\ PipelineOrdered({"lock_write", "download", "verify_artifact",
                        "install_artifact", "verify_checksum"})
    /\ \A i, j \in 1..Len(PipelineEvents) :
          (PipelineEvents[i].op \in {"download", "verify_artifact"}
           /\ PipelineEvents[j].op = "install_artifact")
          => PipelineEvents[i].res = "ok"

C16_Witness ==
    /\ pc = "idle" /\ attempts = 1 /\ ~ret.ok
    /\ ret.err.kind = "verify_artifact"
    /\ Len(PipelineEvents) = 4
    /\ PipelineEvents[2].res = "fail"
    /\ PipelineEvents[3].res = "ok"
    /\ PipelineEvents[4].res = "fail"

\* C20: download_and_install probes once, the ResolvedAsset's download URL,
\* then downloads once: the download URL if the probe succeeded, the API
\* URL if it failed; the lock entry records both original URLs whichever
\* was downloaded.
C20_ProbeFallback ==
    LET heads == SelectSeq(net, LAMBDA e : e.op = "head")
        downloads == SelectSeq(net, LAMBDA e : e.op = "download")
        entry == tv.lock_platforms[get_platform_key]
    IN /\ Len(heads) <= 1 /\ Len(downloads) <= 1
       /\ Len(downloads) <= Len(heads)
       /\ heads # << >> => heads[1].at = asset.url
       /\ downloads # << >> =>
             /\ downloads[1].at = IF heads[1].res = "ok" THEN asset.url ELSE asset.url_api
             /\ entry # None
             /\ entry[1].url = Some(asset.url)
             /\ entry[1].url_api = Some(asset.url_api)
       /\ (pc \in {"verify", "install", "checksum"}
           \/ (pc = "idle" /\ attempts > 0 /\ ret.ok)) =>
             Len(heads) = 1 /\ Len(downloads) = 1
       /\ (pc = "idle" /\ attempts > 0 /\ ret.ok) =>
             LET kept == caller_tv.lock_platforms[get_platform_key]
             IN kept # None /\ kept[1].url = Some(asset.url)
                /\ kept[1].url_api = Some(asset.url_api)

C20_Witness ==
    /\ pc = "idle" /\ attempts = 1 /\ ret.ok
    /\ asset.url_api # asset.url /\ asset.url_api # << >>
    /\ \E i \in 1..Len(net) : net[i].op = "head" /\ net[i].res = "fail"
    /\ \E i \in 1..Len(net) : net[i].op = "download" /\ net[i].at = asset.url_api
    /\ caller_tv.lock_platforms[get_platform_key][1].url = Some(asset.url)

\* C22: an install attempt creates or overwrites only the lock entry of the
\* current platform key: the entries of every other platform key are what
\* they were before install_version, during the attempt and after it,
\* whether it succeeded or failed.
C22_LockMapFrame ==
    \A k \in PlatformKeys \ {get_platform_key} :
        /\ caller_tv.lock_platforms[k] = other_platforms(k)
        /\ tv # NoTv => tv.lock_platforms[k] = other_platforms(k)
        /\ ret.ok => ret.val.lock_platforms[k] = other_platforms(k)

\* A successful attempt has created the current platform's entry.
C22_Witness ==
    /\ pc = "idle" /\ attempts = 1 /\ ret.ok /\ path = "forge"
    /\ ret.val.lock_platforms[get_platform_key] # None
    /\ ret.val.lock_platforms[get_platform_key][1].url = Some(asset.url)
    /\ caller_tv = ret.val

\* ------------------------------------------------------------------------
\* The release-listing model: forge::list_releases_from_url and
\* list_releases_ (src/src/forgejo.rs lines 83-113), one caller at a time
\* ------------------------------------------------------------------------
MaxReleases == 3

MaxPageSize == 2

MaxListCalls == 2

ListedReleases ==
    {[tag_name |-> <<"v", "3">>, draft |-> FALSE, prerelease |-> FALSE],
     [tag_name |-> <<"v", "2">>, draft |-> FALSE, prerelease |-> FALSE],
     [tag_name |-> <<"v", "1">>, draft |-> TRUE, prerelease |-> FALSE],
     [tag_name |-> <<"r", "1">>, draft |-> FALSE, prerelease |-> TRUE]}

\* ForgejoTag
ListedTags == {[name |-> <<"v", "3">>], [name |-> <<"v", "2">>]}

\* The forge's answer to the request of page n: its items and its Link
\* header, which names the next page while releases remain.
page_items(n) ==
    SubSeq(lr_upstream, (n - 1) * lr_per_page + 1,
           IF n * lr_per_page < Len(lr_upstream) THEN n * lr_per_page ELSE Len(lr_upstream))

page_headers(n) ==
    LET links == (IF n > 1 THEN <<[url |-> n - 1, rel |-> "prev"]>> ELSE << >>)
                 \o (IF n * lr_per_page < Len(lr_upstream)
                     THEN <<[url |-> n + 1, rel |-> "next"]>> ELSE << >>)
    IN [link |-> IF links = << >> THEN None ELSE Some(links)]

\* next_page: the first <url>; rel="next" of the link header, if any.
next_page(headers) ==
    LET link == unwrap_or_default(headers.link)
        hits == {i \in 1..Len(link) : link[i].rel = "next"}
    IN IF hits = {} THEN None ELSE Some(link[CHOOSE i \in hits : \A j \in hits : i <= j].url)

\* Mutant: a release is dropped only when it is both a draft and a prerelease.
keep_release_either(r) == ~r.draft \/ ~r.prerelease

\* Line 110: the predicate of releases.retain
keep_release(r) == ~r.draft /\ ~r.prerelease

\* Vec::retain with keep_release
RECURSIVE retain(_)
retain(releases) ==
    IF releases = << >> THEN << >>
    ELSE (IF keep_release(Head(releases)) THEN <<Head(releases)>> ELSE << >>)
         \o retain(Tail(releases))

InitList ==
    /\ \/ /\ lr_kind = "releases"
          /\ lr_upstream \in UNION {[1..k -> ListedReleases] : k \in 0..MaxReleases}
       \/ /\ lr_kind = "tags"
          /\ lr_upstream \in UNION {[1..k -> ListedTags] : k \in 0..MaxReleases}
    /\ lr_disk = None
    /\ lr_per_page \in 1..MaxPageSize
    /\ lr_all \in BOOLEAN
    /\ lr_pc = "idle"
    /\ lr_releases = << >>
    /\ lr_headers = [link |-> None]
    /\ lr_received = << >>
    /\ lr_requests = << >>
    /\ lr_answers = << >>
    /\ lr_cache = None
    /\ lr_ret = Err(NoErr)
    /\ lr_calls = 0
    /\ IdleInstall
    /\ IdleClient
    /\ IdleBackend

\* list_releases_from_url when the key's CacheManager holds a value.
list_releases_cached ==
    /\ lr_pc = "idle"
    /\ lr_calls < MaxListCalls
    /\ lr_cache # None
    /\ lr_calls' = lr_calls + 1
    /\ lr_ret' = Ok(lr_cache[1])
    /\ UNCHANGED <<lr_kind, lr_upstream, lr_per_page, lr_all, lr_pc, lr_releases,
                   lr_headers, lr_received, lr_requests, lr_answers, lr_cache,
                   lr_disk>>
    /\ UNCHANGED <<ivars, cvars, bvars>>

\* list_releases_from_url when it does not: list_releases_ is started.
list_releases_start ==
    /\ lr_pc = "idle"
    /\ lr_calls < MaxListCalls
    /\ lr_cache = None
    /\ lr_calls' = lr_calls + 1
    /\ lr_pc' = "page1"
    /\ lr_releases' = << >>
    /\ lr_headers' = [link |-> None]
    /\ lr_received' = << >>
    /\ lr_requests' = << >>
    /\ lr_answers' = << >>
    /\ UNCHANGED <<lr_kind, lr_upstream, lr_per_page, lr_all, lr_cache, lr_disk, lr_ret>>
    /\ UNCHANGED <<ivars, cvars, bvars>>

\* Line 143 of list_tags_: tags.into_iter().map(|t| t.name).collect()
tag_names(tags) == [i \in 1..Len(tags) |-> tags[i].name]

\* Lines 110-112 of list_releases_ and line 143 of list_tags_: the value
\* returned for the concatenated pages.
listed(items) == IF lr_kind = "releases" THEN retain(items) ELSE tag_names(items)

\* Mutant: the next link is followed whether or not the flag is set.
after_page_always(n, releases) ==
    IF next_page(page_headers(n)) # None
    THEN /\ lr_pc' = "more"
         /\ lr_releases' = releases
         /\ UNCHANGED <<lr_cache, lr_disk, lr_ret>>
    ELSE /\ lr_pc' = "idle"
         /\ lr_releases' = listed(releases)
         /\ lr_cache' = Some(listed(releases))
         /\ lr_disk' = Some(listed(releases))
         /\ lr_ret' = Ok(listed(releases))

\* After the response of page n: either the loop of lines 100-109 goes on
\* to the next page, or lines 110-112 filter and return, and the result is
\* stored by the CacheManager, in memory and in its file, and returned
\* (lines 87-90).
after_page(n, releases) ==
    IF lr_all /\ next_page(page_headers(n)) # None
    THEN /\ lr_pc' = "more"
         /\ lr_releases' = releases
         /\ UNCHANGED <<lr_cache, lr_disk, lr_ret>>
    ELSE /\ lr_pc' = "idle"
         /\ lr_releases' = listed(releases)
         /\ lr_cache' = Some(listed(releases))
         /\ lr_disk' = Some(listed(releases))
         /\ lr_ret' = Ok(listed(releases))

\* Mutant: what was received before the failure is stored and returned.
fetch_failed_partial ==
    /\ lr_pc' = "idle"
    /\ lr_ret' = Ok(listed(lr_releases))
    /\ lr_cache' = Some(listed(lr_releases))
    /\ lr_disk' = Some(listed(lr_releases))
    /\ UNCHANGED <<lr_releases, lr_headers, lr_received>>

\* A request fails: `?` returns the error from list_releases_, and
\* get_or_try_init_async stores nothing and returns it too.
fetch_failed ==
    /\ lr_pc' = "idle"
    /\ lr_ret' = fail("transport", << >>)
    /\ UNCHANGED <<lr_releases, lr_headers, lr_received, lr_cache, lr_disk>>

\* Lines 94-98: the request of the first page.
fetch_first_page ==
    /\ lr_pc = "page1"
    /\ lr_requests' = lr_requests \o <<1>>
    /\ \/ /\ lr_answers' = lr_answers \o <<"ok">>
          /\ lr_headers' = page_headers(1)
          /\ lr_received' = lr_received \o page_items(1)
          /\ after_page(1, page_items(1))
       \/ /\ lr_answers' = lr_answers \o <<"fail">>
          /\ fetch_failed
    /\ UNCHANGED <<lr_kind, lr_upstream, lr_per_page, lr_all, lr_calls>>
    /\ UNCHANGED <<ivars, cvars, bvars>>

\* Lines 101-108: the request of the page the last response names as next.
fetch_next_page ==
    /\ lr_pc = "more"
    /\ LET next == next_page(lr_headers)[1]
       IN /\ lr_requests' = lr_requests \o <<next>>
          /\ \/ /\ lr_answers' = lr_answers \o <<"ok">>
                /\ lr_headers' = page_headers(next)
                /\ lr_received' = lr_received \o page_items(next)
                /\ after_page(next, lr_releases \o page_items(next))
             \/ /\ lr_answers' = lr_answers \o <<"fail">>
                /\ fetch_failed
    /\ UNCHANGED <<lr_kind, lr_upstream, lr_per_page, lr_all, lr_calls>>
    /\ UNCHANGED <<ivars, cvars, bvars>>

NextList ==
    \/ list_releases_cached
    \/ list_releases_start
    \/ fetch_first_page
    \/ fetch_next_page

SpecList == InitList /\ [][NextList]_vars

\* C3: every release list_releases_from_url returns is neither a draft nor
\* a prerelease, and the returned releases are exactly the non-draft,
\* non-prerelease ones upstream sent, in the order upstream sent them.
C3_ListFiltered ==
    (lr_kind = "releases" /\ lr_ret.ok) =>
        LET out == lr_ret.val
            kept == {i \in 1..Len(lr_received) :
                        ~lr_received[i].draft /\ ~lr_received[i].prerelease}
            nth(k) == CHOOSE i \in kept : Cardinality({j \in kept : j <= i}) = k
        IN /\ \A k \in 1..Len(out) : out[k].draft = FALSE /\ out[k].prerelease = FALSE
           /\ Len(out) = Cardinality(kept)
           /\ \A k \in 1..Len(out) : out[k] = lr_received[nth(k)]

C3_Witness ==
    /\ lr_kind = "releases" /\ lr_ret.ok
    /\ Len(lr_requests) = 2
    /\ Len(lr_received) = 3
    /\ lr_received[1].tag_name = <<"v", "2">>
    /\ lr_received[2].draft
    /\ lr_received[3].tag_name = <<"v", "3">>
    /\ Len(lr_ret.val) = 2

\* The items of the given pages, one page after the other.
RECURSIVE pages_in_order(_)
pages_in_order(reqs) ==
    IF reqs = << >> THEN << >>
    ELSE page_items(Head(reqs)) \o pages_in_order(Tail(reqs))

\* The last request of the last call failed.
ListFailed ==
    lr_pc = "idle" /\ lr_answers # << >> /\ lr_answers[Len(lr_answers)] = "fail"

\* C18: list_releases_ and list_tags_ always fetch page 1; with the
\* list-all-versions flag they follow the rel="next" link of the most recent
\* response, page by page, until a response has none, appending each page's
\* items after those of the earlier pages; without the flag exactly one
\* request is made even if page 1 carries a next link.
C18_Pagination ==
    LET k == Len(lr_requests)
        answered == IF ListFailed THEN SubSeq(lr_requests, 1, k - 1) ELSE lr_requests
    IN /\ (lr_pc = "more" \/ (lr_pc = "idle" /\ lr_calls > 0)) => k >= 1
       /\ k >= 1 => lr_requests[1] = 1
       /\ ~lr_all => k <= 1
       /\ \A i \in 2..k :
             next_page(page_headers(lr_requests[i - 1])) = Some(lr_requests[i])
       /\ lr_received = pages_in_order(answered)
       /\ lr_pc = "more" => lr_releases = lr_received
       /\ (lr_pc = "idle" /\ lr_calls > 0 /\ lr_ret.ok) =>
             /\ lr_all => next_page(page_headers(lr_requests[k])) = None
             /\ lr_all => lr_received = lr_upstream
             /\ Len(lr_ret.val) <= Len(lr_received)
             /\ lr_kind = "tags" =>
                   lr_ret.val = [i \in 1..Len(lr_received) |-> lr_received[i].name]

C18_Witness ==
    /\ lr_pc = "idle" /\ lr_calls = 1 /\ lr_ret.ok
    /\ lr_all /\ lr_per_page = 1
    /\ lr_requests = <<1, 2, 3>>
    /\ Len(lr_received) = 3

MaxCallers == 3

Procs == 1..MaxCallers

ClientRequestList ==
    <<[group |-> "releases", api_url |-> get_api_url, repo |-> <<"o", "/", "r">>, tag |-> << >>],
      [group |-> "releases", api_url |-> get_api_url, repo |-> <<"q">>, tag |-> << >>],
      [group |-> "tags", api_url |-> get_api_url, repo |-> <<"o", "/", "r">>, tag |-> << >>],
      [group |-> "release", api_url |-> get_api_url, repo |-> <<"o", "/", "r">>,
       tag |-> <<"releases">>]>>

ClientRequests == {ClientRequestList[i] : i \in 1..Len(ClientRequestList)}

\* The callers run the same code, so the calls are assigned to them in the
\* order of ClientRequestList: every other assignment is one of these with
\* the callers renamed.
RequestAssignments ==
    {[p \in Procs |-> ClientRequestList[f[p]]] :
        f \in {h \in [Procs -> 1..Len(ClientRequestList)] :
                  \A p, q \in Procs : p <= q => h[p] <= h[q]}}

\* Lines 84, 116: the key of the list groups
list_key(api_url, rp) == to_kebab_case(api_url \o <<"-">> \o rp)

key_of(req) ==
    IF req.group = "release" THEN release_key(req.api_url, req.repo, req.tag)
    ELSE list_key(req.api_url, req.repo)

\* Lines 50, 63, 76: the file of a key's CacheManager, under cache_dir()
cache_file(group, key) ==
    key \o (CASE group = "releases" -> <<"-", "releases">>
              [] group = "tags" -> <<"-", "tags">>
              [] OTHER -> << >>)
        \o <<".msgpack.z">>

NoValue == [group |-> "none", repo |-> << >>, tag |-> << >>, gen |-> 0]

EmptyCell == [st |-> "empty", val |-> NoValue]

Pending == [st |-> "pending", val |-> NoValue]

\* Mutant: HashMap::insert, which replaces the key's manager by a new one.
insert_new(group_map, key) ==
    (key :> EmptyCell) @@ [k \in DOMAIN group_map \ {key} |-> group_map[k]]

\* Lines 48-53, 61-66, 74-79: entry(key).or_insert_with(build a manager)
or_insert_with(group_map, key) ==
    IF key \in DOMAIN group_map THEN group_map ELSE (key :> EmptyCell) @@ group_map

\* What the upstream fetch of a request answers: its content changes from
\* one fetch to the next.
upstream_answer(req, gen) == [group |-> req.group, repo |-> req.repo, tag |-> req.tag, gen |-> gen]

\* CacheManager: the file's content, if it is there and parses as a value of
\* the group.
read_cache_file(group, key) ==
    LET file == cache_file(group, key)
    IN IF file \in DOMAIN c_disk /\ c_disk[file].group = group
       THEN Some(c_disk[file]) ELSE None

InitClient ==
    /\ c_req \in RequestAssignments
    /\ c_key = [p \in Procs |-> key_of(c_req[p])]
    /\ c_pc = [p \in Procs |-> "write"]
    /\ c_readers = [g \in Groups |-> {}]
    /\ c_queue = [g \in Groups |-> << >>]
    /\ c_waited = {}
    /\ c_managers = [g \in Groups |-> << >>]
    /\ c_disk = << >>
    /\ c_result = [p \in Procs |-> Pending]
    /\ c_fetches = << >>
    /\ c_gen = 0
    /\ IdleInstall
    /\ IdleList
    /\ IdleBackend

\* tokio::sync::RwLock is fair: a request that cannot be granted at once is
\* queued, requests are granted in the order they were queued, and a reader
\* that arrives while a writer is queued is queued behind it.
enqueue(g, p, kind) ==
    /\ c_queue' = [c_queue EXCEPT ![g] = Append(@, [by |-> p, kind |-> kind])]
    /\ c_waited' = c_waited \cup {p}

is_head(g, p) == c_queue[g] # << >> /\ Head(c_queue[g]).by = p

dequeue(g) == c_queue' = [c_queue EXCEPT ![g] = Tail(@)]

\* get_*_cache up to the end of its first statement, the lock being free:
\* the write guard is taken, the key's manager is inserted if missing, and
\* the guard is dropped (no await in between).
get_cache_write(p) ==
    LET g == c_req[p].group
    IN /\ c_pc[p] = "write"
       /\ c_readers[g] = {} /\ c_queue[g] = << >>
       /\ c_managers' = [c_managers EXCEPT ![g] = or_insert_with(c_managers[g], c_key[p])]
       /\ c_pc' = [c_pc EXCEPT ![p] = "read"]
       /\ UNCHANGED <<c_req, c_key, c_queue, c_waited, c_readers, c_disk, c_result, c_fetches, c_gen>>
       /\ UNCHANGED <<ivars, lvars, bvars>>

\* .write().await while read guards are held or callers are queued: the
\* caller is queued.
write_queued(p) ==
    LET g == c_req[p].group
    IN /\ c_pc[p] = "write"
       /\ c_readers[g] # {} \/ c_queue[g] # << >>
       /\ enqueue(g, p, "write")
       /\ c_pc' = [c_pc EXCEPT ![p] = "write_wait"]
       /\ UNCHANGED <<c_req, c_key, c_readers, c_managers, c_disk, c_result, c_fetches, c_gen>>
       /\ UNCHANGED <<ivars, lvars, bvars>>

\* The queued writer is first in the queue and the last read guard is gone.
write_granted(p) ==
    LET g == c_req[p].group
    IN /\ c_pc[p] = "write_wait"
       /\ is_head(g, p) /\ c_readers[g] = {}
       /\ dequeue(g)
       /\ c_managers' = [c_managers EXCEPT ![g] = or_insert_with(c_managers[g], c_key[p])]
       /\ c_pc' = [c_pc EXCEPT ![p] = "read"]
       /\ UNCHANGED <<c_req, c_key, c_waited, c_readers, c_disk, c_result, c_fetches, c_gen>>
       /\ UNCHANGED <<ivars, lvars, bvars>>

\* get_*_cache's second statement, nobody being queued: the read guard the
\* caller keeps until its call returns.
get_cache_read(p) ==
    LET g == c_req[p].group
    IN /\ c_pc[p] = "read"
       /\ c_queue[g] = << >>
       /\ c_readers' = [c_readers EXCEPT ![g] = @ \cup {p}]
       /\ c_pc' = [c_pc EXCEPT ![p] = "init"]
       /\ UNCHANGED <<c_req, c_key, c_queue, c_waited, c_managers, c_disk, c_result, c_fetches, c_gen>>
       /\ UNCHANGED <<ivars, lvars, bvars>>

\* .read().await while a writer is queued: the caller is queued behind it.
read_queued(p) ==
    LET g == c_req[p].group
    IN /\ c_pc[p] = "read"
       /\ c_queue[g] # << >>
       /\ enqueue(g, p, "read")
       /\ c_pc' = [c_pc EXCEPT ![p] = "read_wait"]
       /\ UNCHANGED <<c_req, c_key, c_readers, c_managers, c_disk, c_result, c_fetches, c_gen>>
       /\ UNCHANGED <<ivars, lvars, bvars>>

\* The queued reader is first in the queue.
read_granted(p) ==
    LET g == c_req[p].group
    IN /\ c_pc[p] = "read_wait"
       /\ is_head(g, p)
       /\ dequeue(g)
       /\ c_readers' = [c_readers EXCEPT ![g] = @ \cup {p}]
       /\ c_pc' = [c_pc EXCEPT ![p] = "init"]
       /\ UNCHANGED <<c_req, c_key, c_waited, c_managers, c_disk, c_result, c_fetches, c_gen>>
       /\ UNCHANGED <<ivars, lvars, bvars>>

\* cache.get(&key).unwrap().get_or_try_init_async(..) finding a value: the
\* manager's own, or the one of its file.
init_hit(p) ==
    LET g == c_req[p].group
        k == c_key[p]
        cell == c_managers[g][k]
        file == read_cache_file(g, k)
    IN /\ c_pc[p] = "init"
       /\ k \in DOMAIN c_managers[g]
       /\ \/ /\ cell.st = "value"
             /\ c_result' = [c_result EXCEPT ![p] = [st |-> "ok", val |-> cell.val]]
             /\ UNCHANGED c_managers
          \/ /\ cell.st = "empty" /\ file # None
             /\ c_result' = [c_result EXCEPT ![p] = [st |-> "ok", val |-> file[1]]]
             /\ c_managers' = [c_managers EXCEPT ![g][k] = [st |-> "value", val |-> file[1]]]
       /\ c_pc' = [c_pc EXCEPT ![p] = "return"]
       /\ UNCHANGED <<c_req, c_key, c_queue, c_waited, c_readers, c_disk, c_fetches, c_gen>>
       /\ UNCHANGED <<ivars, lvars, bvars>>

\* .. finding another caller's initialization in flight: the caller awaits it.
init_join(p) ==
    LET g == c_req[p].group
        k == c_key[p]
    IN /\ c_pc[p] = "init"
       /\ k \in DOMAIN c_managers[g]
       /\ c_managers[g][k].st = "running"
       /\ c_pc' = [c_pc EXCEPT ![p] = "waiting"]
       /\ UNCHANGED <<c_req, c_key, c_queue, c_waited, c_readers, c_managers, c_disk, c_result, c_fetches, c_gen>>
       /\ UNCHANGED <<ivars, lvars, bvars>>

\* .. finding nothing: the caller's closure issues the upstream fetch.
init_fetch(p) ==
    LET g == c_req[p].group
        k == c_key[p]
    IN /\ c_pc[p] = "init"
       /\ k \in DOMAIN c_managers[g]
       /\ c_managers[g][k].st = "empty"
       /\ read_cache_file(g, k) = None
       /\ c_managers' = [c_managers EXCEPT ![g][k] = [st |-> "running", val |-> NoValue]]
       /\ c_fetches' = c_fetches \o <<[group |-> g, key |-> k, by |-> p, res |-> "pending"]>>
       /\ c_pc' = [c_pc EXCEPT ![p] = "fetching"]
       /\ UNCHANGED <<c_req, c_key, c_queue, c_waited, c_readers, c_disk, c_result, c_gen>>
       /\ UNCHANGED <<ivars, lvars, bvars>>

\* The fetch of caller p ends with outcome r: the fetch is logged, and p and
\* the callers awaiting p's initialization all get r.
fetch_end(p, r) ==
    LET g == c_req[p].group
        k == c_key[p]
        joined == {q \in Procs : /\ c_pc[q] = "waiting"
                                 /\ c_req[q].group = g /\ c_key[q] = k}
    IN /\ c_fetches' = [i \in 1..Len(c_fetches) |->
                           IF c_fetches[i].by = p /\ c_fetches[i].res = "pending"
                           THEN [c_fetches[i] EXCEPT !.res = r.st] ELSE c_fetches[i]]
       /\ c_result' = [q \in Procs |-> IF q \in joined \cup {p} THEN r ELSE c_result[q]]
       /\ c_pc' = [q \in Procs |-> IF q \in joined \cup {p} THEN "return" ELSE c_pc[q]]

\* The upstream fetch succeeds: the value is kept by the manager and, unless
\* the write fails, written to the key's file.
fetch_ok(p) ==
    LET g == c_req[p].group
        k == c_key[p]
        v == upstream_answer(c_req[p], c_gen + 1)
    IN /\ c_pc[p] = "fetching"
       /\ c_gen' = c_gen + 1
       /\ c_managers' = [c_managers EXCEPT ![g][k] = [st |-> "value", val |-> v]]
       /\ \E written \in BOOLEAN :
             c_disk' = IF written
                       THEN (cache_file(g, k) :> v) @@
                            [f \in DOMAIN c_disk \ {cache_file(g, k)} |-> c_disk[f]]
                       ELSE c_disk
       /\ fetch_end(p, [st |-> "ok", val |-> v])
       /\ UNCHANGED <<c_req, c_key, c_queue, c_waited, c_readers>>
       /\ UNCHANGED <<ivars, lvars, bvars>>

\* The upstream fetch fails: nothing is kept, the error is returned.
fetch_err(p) ==
    LET g == c_req[p].group
        k == c_key[p]
    IN /\ c_pc[p] = "fetching"
       /\ c_gen' = c_gen + 1
       /\ c_managers' = [c_managers EXCEPT ![g][k] = EmptyCell]
       /\ fetch_end(p, [st |-> "err", val |-> NoValue])
       /\ UNCHANGED <<c_req, c_key, c_queue, c_waited, c_readers, c_disk>>
       /\ UNCHANGED <<ivars, lvars, bvars>>

\* Mutant: the call returns and its read guard is never dropped.
call_return_keeps_guard(p) ==
    /\ c_pc[p] = "return"
    /\ c_pc' = [c_pc EXCEPT ![p] = "done"]
    /\ UNCHANGED <<c_req, c_key, c_queue, c_waited, c_readers, c_managers, c_disk, c_result,
                   c_fetches, c_gen>>
    /\ UNCHANGED <<ivars, lvars, bvars>>

\* The call returns and its read guard is dropped.
call_return(p) ==
    LET g == c_req[p].group
    IN /\ c_pc[p] = "return"
       /\ c_readers' = [c_readers EXCEPT ![g] = @ \ {p}]
       /\ c_pc' = [c_pc EXCEPT ![p] = "done"]
       /\ UNCHANGED <<c_req, c_key, c_queue, c_waited, c_managers, c_disk, c_result, c_fetches, c_gen>>
       /\ UNCHANGED <<ivars, lvars, bvars>>

NextClient ==
    \/ \E p \in Procs : get_cache_write(p)
    \/ \E p \in Procs : write_queued(p)
    \/ \E p \in Procs : write_granted(p)
    \/ \E p \in Procs : get_cache_read(p)
    \/ \E p \in Procs : read_queued(p)
    \/ \E p \in Procs : read_granted(p)
    \/ \E p \in Procs : init_hit(p)
    \/ \E p \in Procs : init_join(p)
    \/ \E p \in Procs : init_fetch(p)
    \/ \E p \in Procs : fetch_ok(p)
    \/ \E p \in Procs : fetch_err(p)
    \/ \E p \in Procs : call_return(p)

SpecClient == InitClient /\ [][NextClient]_vars

\* A step of caller p's task.
caller_step(p) ==
    \/ get_cache_write(p) \/ write_queued(p) \/ write_granted(p)
    \/ get_cache_read(p) \/ read_queued(p) \/ read_granted(p)
    \/ init_hit(p) \/ init_join(p) \/ init_fetch(p)
    \/ fetch_ok(p) \/ fetch_err(p)
    \/ call_return(p)

\* The runtime polls every task that can run, a request the RwLock can
\* grant is granted, and every upstream fetch returns.
SpecClientFair == SpecClient /\ \A p \in Procs : WF_vars(caller_step(p))

\* ------------------------------------------------------------------------
\* Properties of the Forge Client model
\* ------------------------------------------------------------------------
SameKey(p, q) == c_req[p].group = c_req[q].group /\ c_key[p] = c_key[q]

FetchesOf(p) ==
    {i \in 1..Len(c_fetches) :
        c_fetches[i].group = c_req[p].group /\ c_fetches[i].key = c_key[p]}

C2_KeyIndependence ==
    \A p, q \in Procs :
        ( /\ c_req[p].group = c_req[q].group
          /\ c_key[p] # c_key[q]
          /\ c_pc[p] = "fetching"
          /\ c_pc[q] = "write" )
        => c_readers[c_req[q].group] = {}

\* C17: no two distinct cache entries (another group, or another
\* (api_url, repo[, tag]) within a group) are persisted to the same file: the
\* file of a call's entry never holds the value of another entry.
C17_CacheFileIndependence ==
    \A p \in Procs :
        LET file == cache_file(c_req[p].group, c_key[p])
        IN file \in DOMAIN c_disk =>
              /\ c_disk[file].group = c_req[p].group
              /\ c_disk[file].repo = c_req[p].repo
              /\ c_disk[file].tag = c_req[p].tag

\* C21: if every upstream fetch returns, every call returns: no caller
\* waits forever on a group's RwLock, and the manager a caller looks up
\* under its read guard is there, managers being never removed.
C21_DeadlockFree ==
    /\ [](\A p \in Procs :
             c_pc[p] \in {"init", "waiting", "fetching"} =>
                 /\ p \in c_readers[c_req[p].group]
                 /\ c_key[p] \in DOMAIN c_managers[c_req[p].group])
    /\ [][\A g \in Groups : DOMAIN c_managers[g] \subseteq DOMAIN c_managers'[g]]_vars
    /\ \A p \in Procs : <>(c_pc[p] = "done")

\* Every call has returned, a writer having been queued behind a read guard
\* and a reader behind that writer.
C21_Witness ==
    /\ \A p \in Procs : c_pc[p] = "done"
    /\ Cardinality(c_waited) >= 2
    /\ \A g \in Groups : c_readers[g] = {} /\ c_queue[g] = << >>
    /\ Len(c_fetches) >= 2

\* ------------------------------------------------------------------------
\* Backend-helper model: the arguments are drawn from bounded sets and the
\* helper is called once
\* ------------------------------------------------------------------------
MaxTagLen == 3

MaxFetched == 3

Strings(chars, n) == UNION {[1..k -> chars] : k \in 0..n}

Seqs(S, n) == UNION {[1..k -> S] : k \in 0..n}

TagNames == Strings({"v", "r", "1"}, MaxTagLen)

VersionPrefixes == {None, Some(<< >>), Some(<<"v">>), Some(<<"r">>), Some(<<"r", "v">>)}

with_version_prefix(p) == [NoOpts EXCEPT !.version_prefix = p]

\* The tags of the releases forge::list_releases_from_url returns (drafts
\* and prereleases are already removed there).
FetchedTags == {<<"v", "3">>, <<"v", "2">>, <<"v", "1">>, <<"r", "1">>, <<"1">>}

fetched_release(tag) == [tag_name |-> tag, draft |-> FALSE, prerelease |-> FALSE]

\* Iterator::rev().collect()
rev(s) == [i \in 1..Len(s) |-> s[Len(s) + 1 - i]]

\* Mutant: the versions are collected in fetch order.
list_remote_versions_fetch_order(o, releases) ==
    LET filtered == SelectSeq(releases,
                        LAMBDA r : o.version_prefix = None
                                   \/ starts_with(r.tag_name, o.version_prefix[1]))
    IN [i \in 1..Len(filtered) |->
           strip_version_prefix(o.version_prefix, filtered[i].tag_name)]

\* _list_remote_versions, given what forge::list_releases_from_url returned:
\* .filter(..).map(..).rev().collect()
list_remote_versions(o, releases) ==
    LET filtered == SelectSeq(releases,
                        LAMBDA r : o.version_prefix = None
                                   \/ starts_with(r.tag_name, o.version_prefix[1]))
        mapped == [i \in 1..Len(filtered) |->
                      strip_version_prefix(o.version_prefix, filtered[i].tag_name)]
    IN rev(mapped)

InitStrip ==
    /\ b_fn = "strip_version_prefix"
    /\ b_opts \in {with_version_prefix(p) : p \in VersionPrefixes}
    /\ b_tag_name \in TagNames
    /\ b_releases = << >>
    /\ b_assets = << >>
    /\ b_target_name = << >>

InitListRemote ==
    /\ b_fn = "list_remote_versions"
    /\ b_opts \in {with_version_prefix(p) : p \in VersionPrefixes}
    /\ b_tag_name = << >>
    /\ b_releases \in Seqs({fetched_release(tag) : tag \in FetchedTags}, MaxFetched)
    /\ b_assets = << >>
    /\ b_target_name = << >>

call_strip_version_prefix ==
    /\ b_fn = "strip_version_prefix" /\ ~b_done
    /\ b_stripped' = strip_version_prefix(b_opts.version_prefix, b_tag_name)
    /\ b_done' = TRUE
    /\ UNCHANGED <<b_fn, b_opts, b_tag_name, b_releases, b_assets, b_target_name,
                   b_versions, b_selected, b_found>>
    /\ UNCHANGED <<ivars, lvars, cvars>>

call_list_remote_versions ==
    /\ b_fn = "list_remote_versions" /\ ~b_done
    /\ b_versions' = list_remote_versions(b_opts, b_releases)
    /\ b_done' = TRUE
    /\ UNCHANGED <<b_fn, b_opts, b_tag_name, b_releases, b_assets, b_target_name,
                   b_stripped, b_selected, b_found>>
    /\ UNCHANGED <<ivars, lvars, cvars>>

\* ------------------------------------------------------------------------
\* Asset selection by pattern and by name
\* ------------------------------------------------------------------------
MaxAssets == 2

MaxPatternLen == 2

\* The i-th asset of a release: its URLs tell it from its neighbours.
asset_at(names, i) ==
    [name |-> names[i],
     browser_download_url |-> <<<<"d">>, <<ToString(i)>>, names[i]>>,
     url |-> Some(<<<<"a">>, <<ToString(i)>>>>)]

assets_named(names) == [i \in 1..Len(names) |-> asset_at(names, i)]

PatternAssetNames ==
    {<<"a">>, <<"a", "a">>, <<"a", "+">>, <<"a", ".">>, <<"a", "[">>, <<".", "a", "[">>}

\* The asset patterns: a "+" stands after "a", "." or "?" only.
AssetPatterns ==
    {pt \in Strings({"a", "+", "*", "?", ".", "["}, MaxPatternLen) :
        /\ pt # << >>
        /\ \A i \in 1..Len(pt) :
              pt[i] = "+" => (i > 1 /\ pt[i - 1] \in {"a", ".", "?"})}

PatternOpts ==
    UNION {{[NoOpts EXCEPT !.asset_pattern = Some(pt)],
            [NoOpts EXCEPT !.platform_asset_pattern = Some(pt)],
            [NoOpts EXCEPT !.platform_asset_pattern = Some(pt),
                           !.asset_pattern = Some(<<"*">>)]} : pt \in AssetPatterns}

CaseAssetNames == {<<"l", "X">>, <<"l", "x">>, <<"L", "x">>, <<"w">>}

InitSelect ==
    /\ b_fn = "resolve_forge_asset_url"
    /\ b_opts \in PatternOpts
    /\ b_tag_name = <<"2">>
    /\ b_releases = << >>
    /\ b_assets \in {assets_named(ns) : ns \in Seqs(PatternAssetNames, MaxAssets)}
    /\ b_target_name = << >>

InitFind ==
    /\ b_fn = "find_asset_case_insensitive"
    /\ b_opts = NoOpts
    /\ b_tag_name = << >>
    /\ b_releases = << >>
    /\ b_assets \in {assets_named(ns) : ns \in Seqs(CaseAssetNames, MaxAssets)}
    /\ b_target_name \in CaseAssetNames

\* resolve_forge_asset_url once forge::get_release_for_url has returned the
\* release of tag b_tag_name with the assets b_assets
call_resolve_forge_asset_url ==
    /\ b_fn = "resolve_forge_asset_url" /\ ~b_done
    /\ b_selected' = resolve_forge_asset_url(b_tag_name, b_opts,
                          Ok([tag_name |-> b_tag_name, draft |-> FALSE,
                              prerelease |-> FALSE, assets |-> b_assets]))
    /\ b_done' = TRUE
    /\ UNCHANGED <<b_fn, b_opts, b_tag_name, b_releases, b_assets, b_target_name,
                   b_stripped, b_versions, b_found>>
    /\ UNCHANGED <<ivars, lvars, cvars>>

call_find_asset_case_insensitive ==
    /\ b_fn = "find_asset_case_insensitive" /\ ~b_done
    /\ b_found' = find_asset_case_insensitive(b_assets, b_target_name)
    /\ b_done' = TRUE
    /\ UNCHANGED <<b_fn, b_opts, b_tag_name, b_releases, b_assets, b_target_name,
                   b_stripped, b_versions, b_selected>>
    /\ UNCHANGED <<ivars, lvars, cvars>>

InitBackend ==
    /\ InitStrip \/ InitListRemote \/ InitSelect \/ InitFind
    /\ b_done = FALSE
    /\ b_stripped = << >>
    /\ b_versions = << >>
    /\ b_selected = Err(NoErr)
    /\ b_found = None
    /\ IdleInstall
    /\ IdleList
    /\ IdleClient

NextBackend ==
    \/ call_strip_version_prefix
    \/ call_list_remote_versions
    \/ call_resolve_forge_asset_url
    \/ call_find_asset_case_insensitive

SpecBackend == InitBackend /\ [][NextBackend]_vars

\* C11: _list_remote_versions returns exactly the fetched releases whose tag
\* starts with the configured version_prefix (all if unset), each mapped
\* through strip_version_prefix, in the reverse of fetch order; fetched
\* [v3, v2, v1] yields ["1", "2", "3"].
C11_ListRemoteVersions ==
    (b_fn = "list_remote_versions" /\ b_done) =>
        LET p == b_opts.version_prefix
            kept == {i \in 1..Len(b_releases) :
                        p = None \/ starts_with(b_releases[i].tag_name, p[1])}
            \* the position in b_releases of the k-th kept release from the end
            from_end(k) == CHOOSE i \in kept : Cardinality({j \in kept : j >= i}) = k
        IN /\ Len(b_versions) = Cardinality(kept)
           /\ \A k \in 1..Len(b_versions) :
                 b_versions[k] = strip_version_prefix(p, b_releases[from_end(k)].tag_name)
           /\ (p = None /\ b_releases = <<fetched_release(<<"v", "3">>),
                                           fetched_release(<<"v", "2">>),
                                           fetched_release(<<"v", "1">>)>>)
                 => b_versions = <<<<"1">>, <<"2">>, <<"3">>>>

C11_Witness ==
    /\ b_fn = "list_remote_versions" /\ b_done
    /\ b_opts.version_prefix = Some(<<"v">>)
    /\ b_releases = <<fetched_release(<<"v", "3">>), fetched_release(<<"r", "1">>),
                      fetched_release(<<"v", "1">>)>>
    /\ b_versions = <<<<"1">>, <<"3">>>>

\* C12: strip_version_prefix removes exactly the configured prefix when the
\* tag starts with it; otherwise exactly one leading "v" when the tag starts
\* with "v"; otherwise it returns the tag unchanged.
C12_StripVersionPrefix ==
    (b_fn = "strip_version_prefix" /\ b_done) =>
        LET p == b_opts.version_prefix
        IN IF p # None /\ starts_with(b_tag_name, p[1])
           THEN b_stripped = SubSeq(b_tag_name, Len(p[1]) + 1, Len(b_tag_name))
           ELSE IF b_tag_name # << >> /\ Head(b_tag_name) = "v"
                THEN b_stripped = Tail(b_tag_name)
                ELSE b_stripped = b_tag_name

\* C13: when the tag starts with the configured prefix, the prefix
\* concatenated with strip_version_prefix(tag) is the tag.
C13_PrefixRoundTrip ==
    (/\ b_fn = "strip_version_prefix" /\ b_done
     /\ b_opts.version_prefix # None
     /\ starts_with(b_tag_name, b_opts.version_prefix[1]))
    => b_opts.version_prefix[1] \o b_stripped = b_tag_name

C13_Witness ==
    /\ b_fn = "strip_version_prefix" /\ b_done
    /\ b_opts.version_prefix = Some(<<"r">>)
    /\ b_tag_name = <<"r", "v", "1">>
    /\ b_stripped = <<"v", "1">>

\* Whole-name glob matching: "*" any run of characters, "?" exactly one
\* character, every other pattern character only itself.
RECURSIVE glob_match(_, _, _, _)
glob_match(pt, i, s, j) ==
    IF i > Len(pt) THEN j > Len(s)
    ELSE IF pt[i] = "*"
    THEN \/ glob_match(pt, i + 1, s, j)
         \/ (j <= Len(s) /\ glob_match(pt, i, s, j + 1))
    ELSE /\ j <= Len(s)
         /\ (pt[i] = "?" \/ pt[i] = s[j])
         /\ glob_match(pt, i + 1, s, j + 1)

\* C14: with an asset_pattern set (the platform's value first, the global
\* value as fallback) the chosen asset is the first asset of the release
\* whose whole name matches the glob; if none matches, resolution fails
\* with an error that lists the asset names.
C14_AssetPatternSelection ==
    (b_fn = "resolve_forge_asset_url" /\ b_done) =>
        LET pt == IF b_opts.platform_asset_pattern # None
                  THEN b_opts.platform_asset_pattern[1]
                  ELSE b_opts.asset_pattern[1]
            hits == {i \in 1..Len(b_assets) : glob_match(pt, 1, b_assets[i].name, 1)}
        IN IF hits = {}
           THEN /\ ~b_selected.ok
                /\ b_selected.err.kind = "no_pattern_match"
                /\ b_selected.err.names = [i \in 1..Len(b_assets) |-> b_assets[i].name]
           ELSE /\ b_selected.ok
                /\ \E i \in hits :
                      /\ \A j \in hits : i <= j
                      /\ b_selected.val.name = b_assets[i].name
                      /\ b_selected.val.url = b_assets[i].browser_download_url

\* C15: find_asset_case_insensitive returns the first asset whose name is
\* the target exactly if there is one, otherwise the first asset whose
\* lower-cased name is the lower-cased target, with its own casing,
\* otherwise none.
C15_FindAssetCaseInsensitive ==
    (b_fn = "find_asset_case_insensitive" /\ b_done) =>
        LET n == Len(b_assets)
            same(i) == b_assets[i].name = b_target_name
            alike(i) == to_lowercase(b_assets[i].name) = to_lowercase(b_target_name)
        IN /\ (\E i \in 1..n : same(i)) =>
                 \E i \in 1..n : /\ same(i) /\ \A j \in 1..(i - 1) : ~same(j)
                                  /\ b_found = Some(b_assets[i])
           /\ ((\A i \in 1..n : ~same(i)) /\ (\E i \in 1..n : alike(i))) =>
                 \E i \in 1..n : /\ alike(i) /\ \A j \in 1..(i - 1) : ~alike(j)
                                  /\ b_found = Some(b_assets[i])
           /\ (\A i \in 1..n : ~alike(i)) => b_found = None

\* An exact match is returned although a case-insensitive one precedes it.
C15_Witness ==
    /\ b_fn = "find_asset_case_insensitive" /\ b_done
    /\ Len(b_assets) = 2
    /\ b_assets[1].name = <<"l", "X">>
    /\ b_assets[2].name = <<"l", "x">>
    /\ b_target_name = <<"l", "x">>
    /\ b_found = Some(b_assets[2])

====
